---- MODULE Spec2Model ----
(***************************************************************************)
(* Commander AI (src/app.py): API-key authentication, the override-token  *)
(* policy, the ownership checks of the request handlers, and the in-memory *)
(* stores users_db, bots_db, codes_db and tasks_db they act on.            *)
(*                                                                         *)
(* An Optional[str] of the code is a sequence of length 0 (None) or 1      *)
(* (the string); Python truthiness of it is Truthy below.                  *)
(***************************************************************************)
EXTENDS Integers, Sequences, FiniteSets, Bags, TLC

VARIABLES users_db, openai_suspends, bots_db, codes_db, tasks_db, background, generating,
          next_id, last, call

vars ==
    <<users_db, openai_suspends, bots_db, codes_db, tasks_db, background, generating,
      next_id, last, call>>

stores == <<users_db, bots_db, codes_db, tasks_db>>

\* Number of uuid4 identifiers the handlers may allocate in one run, those the
\* suspended generate_code requests are going to allocate included.
MaxIds == 2

\* ---------------------------------------------------------------- configuration
CREATOR_EMAIL == "creator@example.com"

CREATOR_API_KEY == "creator-key"

OVERRIDE_TOKEN == "override-secret"

None == <<>>

Some(s) == <<s>>

\* Python truthiness of an Optional[str]: None and "" are falsy.
Truthy(x) == x # None /\ x[1] # ""

\* The record users_db is seeded with at import time.
CreatorRecord == [email |-> CREATOR_EMAIL, api_key |-> CREATOR_API_KEY, is_admin |-> TRUE]

User(e, k, a) == [email |-> e, api_key |-> k, is_admin |-> a]

\* Identity tables the process may run with: the seeded creator record first
\* (dict insertion order), followed by the identities registered besides it.
UserTables ==
    { <<CreatorRecord>> \o rest : rest \in
        { <<>>,
          <<User("alice@example.com", "key-alice", FALSE),
            User("bob@example.com", "key-bob", FALSE)>>,
          <<User("bob@example.com", "key-bob", TRUE)>>,
          <<User("alice@example.com", "key-bob", FALSE),
            User("bob@example.com", "key-bob", TRUE)>> } }

\* Values of the X-API-Key header a request may carry.
ApiKeys ==
    { None, Some(""), Some(CREATOR_API_KEY), Some("key-alice"), Some("key-bob"),
      Some("bogus") }

\* Values of the override_token body field a request may carry.
OverrideTokens ==
    { None, Some(""), Some(OVERRIDE_TOKEN), Some(OVERRIDE_TOKEN \o "x") }

Ids == 1..MaxIds

\* ---------------------------------------------------------------- authentication
NoAuth == [email |-> "", is_admin |-> FALSE, api_key |-> ""]

HTTPException(code, text) == [ok |-> FALSE, status |-> code, detail |-> text, auth |-> NoAuth]

Resolved(e, a, k) ==
    [ok |-> TRUE, status |-> 200, detail |-> "",
     auth |-> [email |-> e, is_admin |-> a, api_key |-> k]]

\* Index of the first user of the table whose stored key is k, 0 when none.
FirstMatch(udb, k) ==
    IF \E i \in 1..Len(udb) : udb[i].api_key = k
    THEN CHOOSE i \in 1..Len(udb) :
            /\ udb[i].api_key = k
            /\ \A j \in 1..(i - 1) : udb[j].api_key # k
    ELSE 0

\* get_api_key testing the header for None only: "" goes on to the lookup.
get_api_key_NoneOnly(x_api_key, udb) ==
    IF x_api_key = None
    THEN HTTPException(401, "Missing X-API-Key header")
    ELSE IF x_api_key[1] = CREATOR_API_KEY
    THEN Resolved(CREATOR_EMAIL, TRUE, x_api_key[1])
    ELSE LET i == FirstMatch(udb, x_api_key[1]) IN
         IF i # 0
         THEN Resolved(udb[i].email, udb[i].is_admin, x_api_key[1])
         ELSE HTTPException(401, "Invalid API key")

\* get_api_key letting an unknown key in as an anonymous non-admin caller.
get_api_key_Anonymous(x_api_key, udb) ==
    IF ~Truthy(x_api_key)
    THEN HTTPException(401, "Missing X-API-Key header")
    ELSE IF x_api_key[1] = CREATOR_API_KEY
    THEN Resolved(CREATOR_EMAIL, TRUE, x_api_key[1])
    ELSE LET i == FirstMatch(udb, x_api_key[1]) IN
         IF i # 0
         THEN Resolved(udb[i].email, udb[i].is_admin, x_api_key[1])
         ELSE Resolved("anonymous", FALSE, x_api_key[1])

\* get_api_key whose creator branch takes the default is_admin of the lookup.
get_api_key_CreatorDefault(x_api_key, udb) ==
    IF ~Truthy(x_api_key)
    THEN HTTPException(401, "Missing X-API-Key header")
    ELSE IF x_api_key[1] = CREATOR_API_KEY
    THEN Resolved(CREATOR_EMAIL, FALSE, x_api_key[1])
    ELSE LET i == FirstMatch(udb, x_api_key[1]) IN
         IF i # 0
         THEN Resolved(udb[i].email, udb[i].is_admin, x_api_key[1])
         ELSE HTTPException(401, "Invalid API key")

\* get_api_key granting admin to every key the lookup finds.
get_api_key_AllAdmin(x_api_key, udb) ==
    IF ~Truthy(x_api_key)
    THEN HTTPException(401, "Missing X-API-Key header")
    ELSE IF x_api_key[1] = CREATOR_API_KEY
    THEN Resolved(CREATOR_EMAIL, TRUE, x_api_key[1])
    ELSE LET i == FirstMatch(udb, x_api_key[1]) IN
         IF i # 0
         THEN Resolved(udb[i].email, TRUE, x_api_key[1])
         ELSE HTTPException(401, "Invalid API key")

\* AuthChecker.get_api_key
get_api_key(x_api_key, udb) ==
    IF ~Truthy(x_api_key)
    THEN HTTPException(401, "Missing X-API-Key header")
    ELSE IF x_api_key[1] = CREATOR_API_KEY
    THEN Resolved(CREATOR_EMAIL, TRUE, x_api_key[1])
    ELSE LET i == FirstMatch(udb, x_api_key[1]) IN
         IF i # 0
         THEN Resolved(udb[i].email, udb[i].is_admin, x_api_key[1])
         ELSE HTTPException(401, "Invalid API key")

\* check_override_token without the admin shortcut.
check_override_token_NoAdminBypass(override_token, user) ==
    IF user = <<>>
    THEN FALSE
    ELSE IF ~Truthy(override_token) \/ override_token[1] # OVERRIDE_TOKEN
    THEN FALSE
    ELSE TRUE

\* check_override_token accepting any non-empty token.
check_override_token_AnyToken(override_token, user) ==
    IF user = <<>>
    THEN FALSE
    ELSE IF user[1].is_admin
    THEN TRUE
    ELSE IF ~Truthy(override_token)
    THEN FALSE
    ELSE TRUE

\* AuthChecker.check_override_token; user is None (<<>>) or <<auth context>>.
check_override_token(override_token, user) ==
    IF user = <<>>
    THEN FALSE
    ELSE IF user[1].is_admin
    THEN TRUE
    ELSE IF ~Truthy(override_token) \/ override_token[1] # OVERRIDE_TOKEN
    THEN FALSE
    ELSE TRUE

\* The ownership test without the admin exemption.
NotAuthorized_OwnerOnly(record, auth) == record.owner # auth.email

\* The ownership test shared by delete_bot, get_code, approve_code, assign_task:
\* TRUE when the handler raises 403 "Not authorized".
NotAuthorized(record, auth) == record.owner # auth.email /\ ~auth.is_admin

\* str(override_token) as the f-string of approve_code renders it.
Str(override_token) == IF override_token = None THEN "None" ELSE override_token[1]

\* ---------------------------------------------------------------- handler bodies
\* What a handler body yields: the HTTP status, the error detail ("" on
\* success) and the store it works on as the handler leaves it.
Raise(code, text, db) == [status |-> code, detail |-> text, db |-> db]

Return(db) == [status |-> 200, detail |-> "", db |-> db]

Remove(db, id) == [k \in (DOMAIN db) \ {id} |-> db[k]]

Put(db, id, rec) == [k \in (DOMAIN db) \cup {id} |-> IF k = id THEN rec ELSE db[k]]

\* create_bot open to admins only.
create_bot_AdminOnly(bot_id, auth, bots) ==
    IF ~auth.is_admin
    THEN Raise(403, "Not authorized", bots)
    ELSE Return(Put(bots, bot_id, [owner |-> auth.email, tasks_completed |-> 0]))

\* create_bot: the body has no test; bot_id is the fresh uuid4.
create_bot(bot_id, auth, bots) ==
    Return(Put(bots, bot_id, [owner |-> auth.email, tasks_completed |-> 0]))

\* generate_code: the body has no test; code_id is the fresh uuid4.
generate_code(code_id, auth, codes) ==
    Return(Put(codes, code_id,
               [owner |-> auth.email, approved |-> FALSE, approved_by |-> None]))

\* delete_bot letting a valid override token stand in for ownership.
delete_bot_OverrideAsOwnership(bot_id, auth, override_token, bots) ==
    IF bot_id \notin DOMAIN bots
    THEN Raise(404, "Bot not found", bots)
    ELSE IF NotAuthorized(bots[bot_id], auth) /\ ~check_override_token(override_token, <<auth>>)
    THEN Raise(403, "Not authorized", bots)
    ELSE IF ~auth.is_admin /\ ~check_override_token(override_token, <<auth>>)
    THEN Raise(403, "Override token required for non-admin users", bots)
    ELSE Return(Remove(bots, bot_id))

\* delete_bot reporting the missing override grant as a credential failure.
delete_bot_Override401(bot_id, auth, override_token, bots) ==
    IF bot_id \notin DOMAIN bots
    THEN Raise(404, "Bot not found", bots)
    ELSE IF NotAuthorized(bots[bot_id], auth)
    THEN Raise(403, "Not authorized", bots)
    ELSE IF ~auth.is_admin /\ ~check_override_token(override_token, <<auth>>)
    THEN Raise(401, "Invalid API key", bots)
    ELSE Return(Remove(bots, bot_id))

\* delete_bot removing the bot before it tests the override token.
delete_bot_DeleteThenCheck(bot_id, auth, override_token, bots) ==
    IF bot_id \notin DOMAIN bots
    THEN Raise(404, "Bot not found", bots)
    ELSE IF NotAuthorized(bots[bot_id], auth)
    THEN Raise(403, "Not authorized", bots)
    ELSE IF ~auth.is_admin /\ ~check_override_token(override_token, <<auth>>)
    THEN Raise(403, "Override token required for non-admin users", Remove(bots, bot_id))
    ELSE Return(Remove(bots, bot_id))

\* delete_bot, after the resolver has produced auth
delete_bot(bot_id, auth, override_token, bots) ==
    IF bot_id \notin DOMAIN bots
    THEN Raise(404, "Bot not found", bots)
    ELSE IF NotAuthorized(bots[bot_id], auth)
    THEN Raise(403, "Not authorized", bots)
    ELSE IF ~auth.is_admin /\ ~check_override_token(override_token, <<auth>>)
    THEN Raise(403, "Override token required for non-admin users", bots)
    ELSE Return(Remove(bots, bot_id))

\* get_code without the ownership test.
get_code_NoOwnerTest(code_id, auth, codes) ==
    IF code_id \notin DOMAIN codes
    THEN Raise(404, "Code not found", codes)
    ELSE Return(codes)

\* get_code
get_code(code_id, auth, codes) ==
    IF code_id \notin DOMAIN codes
    THEN Raise(404, "Code not found", codes)
    ELSE IF NotAuthorized(codes[code_id], auth)
    THEN Raise(403, "Not authorized", codes)
    ELSE Return(codes)

\* approve_code asking non-admins for nothing beyond ownership.
approve_code_NoOverride(code_id, auth, override_token, codes) ==
    IF code_id \notin DOMAIN codes
    THEN Raise(404, "Code not found", codes)
    ELSE IF NotAuthorized(codes[code_id], auth)
    THEN Raise(403, "Not authorized", codes)
    ELSE Return(Put(codes, code_id,
                    [codes[code_id] EXCEPT !.approved = TRUE,
                                           !.approved_by = Some(auth.email)]))

\* approve_code treating the override secret as single-use: a non-admin who
\* has approved a record before is refused.
approve_code_SingleUse(code_id, auth, override_token, codes) ==
    IF code_id \notin DOMAIN codes
    THEN Raise(404, "Code not found", codes)
    ELSE IF NotAuthorized(codes[code_id], auth)
    THEN Raise(403, "Not authorized", codes)
    ELSE IF ~auth.is_admin /\
            (\/ ~check_override_token(override_token, <<auth>>)
             \/ \E c \in DOMAIN codes : codes[c].approved_by = Some(auth.email))
    THEN Raise(403, "Override token required. Your token: " \o Str(override_token), codes)
    ELSE Return(Put(codes, code_id,
                    [codes[code_id] EXCEPT !.approved = TRUE,
                                           !.approved_by = Some(auth.email)]))

\* approve_code handing the record over to the caller that approves it.
approve_code_TakesOwnership(code_id, auth, override_token, codes) ==
    IF code_id \notin DOMAIN codes
    THEN Raise(404, "Code not found", codes)
    ELSE IF NotAuthorized(codes[code_id], auth)
    THEN Raise(403, "Not authorized", codes)
    ELSE IF ~auth.is_admin /\ ~check_override_token(override_token, <<auth>>)
    THEN Raise(403, "Override token required. Your token: " \o Str(override_token), codes)
    ELSE Return(Put(codes, code_id,
                    [codes[code_id] EXCEPT !.approved = TRUE,
                                           !.approved_by = Some(auth.email),
                                           !.owner = auth.email]))

\* approve_code
approve_code(code_id, auth, override_token, codes) ==
    IF code_id \notin DOMAIN codes
    THEN Raise(404, "Code not found", codes)
    ELSE IF NotAuthorized(codes[code_id], auth)
    THEN Raise(403, "Not authorized", codes)
    ELSE IF ~auth.is_admin /\ ~check_override_token(override_token, <<auth>>)
    THEN Raise(403, "Override token required. Your token: " \o Str(override_token), codes)
    ELSE Return(Put(codes, code_id,
                    [codes[code_id] EXCEPT !.approved = TRUE,
                                           !.approved_by = Some(auth.email)]))

\* assign_task testing the caller before the existence of the bot.
assign_task_OwnershipFirst(bot_id, auth, task_id, bots, tasks) ==
    IF ~auth.is_admin /\ (bot_id \notin DOMAIN bots \/ bots[bot_id].owner # auth.email)
    THEN Raise(403, "Not authorized", tasks)
    ELSE IF bot_id \notin DOMAIN bots
    THEN Raise(404, "Bot not found", tasks)
    ELSE Return(Put(tasks, task_id,
                    [bot_id |-> bot_id, assigned_by |-> auth.email, status |-> "pending"]))

\* assign_task up to the creation of the task record
assign_task(bot_id, auth, task_id, bots, tasks) ==
    IF bot_id \notin DOMAIN bots
    THEN Raise(404, "Bot not found", tasks)
    ELSE IF NotAuthorized(bots[bot_id], auth)
    THEN Raise(403, "Not authorized", tasks)
    ELSE Return(Put(tasks, task_id,
                    [bot_id |-> bot_id, assigned_by |-> auth.email, status |-> "pending"]))

\* list_bots: the ids of the bots returned
list_bots(auth, bots) ==
    { b \in DOMAIN bots : bots[b].owner = auth.email \/ auth.is_admin }

\* list_tasks filtering on the caller who assigned the task, without looking
\* the task's bot up in the bot store.
list_tasks_ByAssigner(auth, bots, tasks) ==
    { t \in DOMAIN tasks : tasks[t].assigned_by = auth.email \/ auth.is_admin }

\* list_tasks: the ids of the tasks returned
list_tasks(auth, bots, tasks) ==
    { t \in DOMAIN tasks :
        /\ tasks[t].bot_id \in DOMAIN bots
        /\ (bots[tasks[t].bot_id].owner = auth.email \/ auth.is_admin) }

\* ---------------------------------------------------------------- requests
\* The outcome of the step taken last: the request, what the resolver made of
\* its key, the response, the stores the handler body touched and, for the
\* listing endpoints, the ids returned.
Outcome(op, key, tok, rid, r, status, detail, accessed, result) ==
    [op |-> op, key |-> key, tok |-> tok, rid |-> rid,
     auth |-> IF r.ok THEN <<r.auth>> ELSE <<>>,
     status |-> status, detail |-> detail, accessed |-> accessed, result |-> result]

\* The endpoints declared with Depends(AuthChecker.get_api_key).
Endpoints ==
    { "system_info", "create_bot", "list_bots", "delete_bot", "generate_code",
      "get_code", "approve_code", "assign_task", "list_tasks" }

\* Depends(AuthChecker.get_api_key) raised: the handler body is not entered and
\* the path and body parameters of the request are never looked at.
Unauthenticated(op, key) ==
    LET r == get_api_key(key, users_db) IN
    /\ ~r.ok
    /\ last' = Outcome(op, key, None, 0, r, r.status, r.detail, {}, {})
    /\ UNCHANGED <<users_db, openai_suspends, generating, bots_db, codes_db, tasks_db, background, next_id, call>>

SystemInfo(key) ==
    LET r == get_api_key(key, users_db) IN
    /\ r.ok
    /\ last' = Outcome("system_info", key, None, 0, r, 200, "",
                       {"bots_db", "codes_db"}, {})
    /\ UNCHANGED <<users_db, openai_suspends, generating, bots_db, codes_db, tasks_db, background, next_id, call>>

CreateBot(key) ==
    LET r == get_api_key(key, users_db) IN
    /\ r.ok
    /\ next_id + BagCardinality(generating) <= MaxIds
    /\ LET h == create_bot(next_id, r.auth, bots_db) IN
       /\ bots_db' = h.db
       /\ next_id' = IF h.status = 200 THEN next_id + 1 ELSE next_id
       /\ last' = Outcome("create_bot", key, None, IF h.status = 200 THEN next_id ELSE 0, r,
                          h.status, h.detail, {"bots_db"}, {})
    /\ UNCHANGED <<users_db, openai_suspends, generating, codes_db, tasks_db, background, call>>

ListBots(key) ==
    LET r == get_api_key(key, users_db) IN
    /\ r.ok
    /\ last' = Outcome("list_bots", key, None, 0, r, 200, "", {"bots_db"},
                       list_bots(r.auth, bots_db))
    /\ UNCHANGED <<users_db, openai_suspends, generating, bots_db, codes_db, tasks_db, background, next_id, call>>

DeleteBot(key, bot_id, override_token) ==
    LET r == get_api_key(key, users_db) IN
    /\ r.ok
    /\ LET h == delete_bot(bot_id, r.auth, override_token, bots_db) IN
       /\ bots_db' = h.db
       /\ last' = Outcome("delete_bot", key, override_token, bot_id, r,
                          h.status, h.detail, {"bots_db"}, {})
    /\ UNCHANGED <<users_db, openai_suspends, generating, codes_db, tasks_db, background,
                   next_id, call>>

\* generate_code in a process where the call of openai_service.generate_code
\* does not suspend: the service is disabled (the fallback code is returned at
\* once) or the call fails before its await (the except branch returns the
\* fallback code).
GenerateCode(key) ==
    LET r == get_api_key(key, users_db) IN
    /\ r.ok
    /\ ~openai_suspends
    /\ next_id + BagCardinality(generating) <= MaxIds
    /\ LET h == generate_code(next_id, r.auth, codes_db) IN
       /\ codes_db' = h.db
       /\ next_id' = IF h.status = 200 THEN next_id + 1 ELSE next_id
       /\ last' = Outcome("generate_code", key, None, IF h.status = 200 THEN next_id ELSE 0, r,
                          h.status, h.detail, {"codes_db"}, {})
    /\ UNCHANGED <<users_db, openai_suspends, generating, bots_db, tasks_db, background, call>>

\* generate_code up to its await: with the service enabled and its openai call
\* made, the body suspends in openai.ChatCompletion.acreate before a code id is
\* allocated or anything is written; the coroutine keeps the auth context the
\* resolver gave it.  No response is sent yet.
GenerateCodeSuspend(key) ==
    LET r == get_api_key(key, users_db) IN
    /\ r.ok
    /\ openai_suspends
    /\ next_id + BagCardinality(generating) <= MaxIds
    /\ generating' = generating (+) SetToBag({r.auth})
    /\ UNCHANGED <<users_db, openai_suspends, bots_db, codes_db, tasks_db, background,
                   next_id, last, call>>

\* generate_code from the return of the awaited call to its response: the code
\* id is allocated and the record written for the caller auth of a suspended
\* request, with the stores as they are now.
GenerateCodeResume(auth) ==
    /\ BagIn(auth, generating)
    /\ next_id <= MaxIds
    /\ generating' = generating (-) SetToBag({auth})
    /\ LET r == Resolved(auth.email, auth.is_admin, auth.api_key)
           h == generate_code(next_id, auth, codes_db)
       IN
       /\ codes_db' = h.db
       /\ next_id' = IF h.status = 200 THEN next_id + 1 ELSE next_id
       /\ last' = Outcome("generate_code", Some(auth.api_key), None,
                          IF h.status = 200 THEN next_id ELSE 0, r,
                          h.status, h.detail, {"codes_db"}, {})
    /\ UNCHANGED <<users_db, openai_suspends, bots_db, tasks_db, background, call>>

GetCode(key, code_id) ==
    LET r == get_api_key(key, users_db) IN
    /\ r.ok
    /\ LET h == get_code(code_id, r.auth, codes_db) IN
       last' = Outcome("get_code", key, None, code_id, r, h.status, h.detail,
                       {"codes_db"}, IF h.status = 200 THEN {code_id} ELSE {})
    /\ UNCHANGED <<users_db, openai_suspends, generating, bots_db, codes_db, tasks_db, background, next_id, call>>

ApproveCode(key, code_id, override_token) ==
    LET r == get_api_key(key, users_db) IN
    /\ r.ok
    /\ LET h == approve_code(code_id, r.auth, override_token, codes_db) IN
       /\ codes_db' = h.db
       /\ last' = Outcome("approve_code", key, override_token, code_id, r,
                          h.status, h.detail, {"codes_db"}, {})
    /\ UNCHANGED <<users_db, openai_suspends, generating, bots_db, tasks_db, background, next_id, call>>

\* assign_task; on success the coroutine execute_task is scheduled for the
\* new task (asyncio.create_task) and runs later as ExecuteTask.
AssignTask(key, bot_id) ==
    LET r == get_api_key(key, users_db) IN
    /\ r.ok
    /\ LET h == assign_task(bot_id, r.auth, next_id, bots_db, tasks_db) IN
       /\ h.status = 200 => next_id + BagCardinality(generating) <= MaxIds
       /\ tasks_db' = h.db
       /\ background' = IF h.status = 200 THEN background \cup {next_id} ELSE background
       /\ next_id' = IF h.status = 200 THEN next_id + 1 ELSE next_id
       /\ last' = Outcome("assign_task", key, None, bot_id, r, h.status, h.detail,
                          IF h.status = 200 THEN {"bots_db", "tasks_db"} ELSE {"bots_db"},
                          IF h.status = 200 THEN {next_id} ELSE {})
    /\ UNCHANGED <<users_db, openai_suspends, generating, bots_db, codes_db, call>>

\* list_tasks: bots_db is read inside the loop over tasks_db.values() only, so
\* with no task record the body touches tasks_db alone.
ListTasks(key) ==
    LET r == get_api_key(key, users_db) IN
    /\ r.ok
    /\ last' = Outcome("list_tasks", key, None, 0, r, 200, "",
                       IF DOMAIN tasks_db = {} THEN {"tasks_db"} ELSE {"bots_db", "tasks_db"},
                       list_tasks(r.auth, bots_db, tasks_db))
    /\ UNCHANGED <<users_db, openai_suspends, generating, bots_db, codes_db, tasks_db, background, next_id, call>>

\* execute_task updating the bot's counter before the task record: the
\* KeyError of a deleted bot then ends the coroutine with the task pending.
ExecuteTask_CounterFirst(task_id) ==
    /\ task_id \in background
    /\ background' = background \ {task_id}
    /\ LET bot_id == tasks_db[task_id].bot_id IN
       IF bot_id \in DOMAIN bots_db
       THEN /\ bots_db' = [bots_db EXCEPT ![bot_id].tasks_completed = @ + 1]
            /\ tasks_db' = [tasks_db EXCEPT ![task_id].status = "completed"]
            /\ last' = [op |-> "execute_task", key |-> None, tok |-> None, rid |-> task_id,
                        auth |-> <<>>, status |-> 0, detail |-> "",
                        accessed |-> {"bots_db", "tasks_db"}, result |-> {}]
       ELSE /\ bots_db' = bots_db
            /\ tasks_db' = tasks_db
            /\ last' = [op |-> "execute_task", key |-> None, tok |-> None, rid |-> task_id,
                        auth |-> <<>>, status |-> 0, detail |-> "KeyError",
                        accessed |-> {"bots_db"}, result |-> {}]
    /\ UNCHANGED <<users_db, openai_suspends, generating, codes_db, next_id, call>>

\* execute_task marking the task cancelled when its bot is gone.
ExecuteTask_Cancels(task_id) ==
    /\ task_id \in background
    /\ background' = background \ {task_id}
    /\ LET bot_id == tasks_db[task_id].bot_id IN
       IF bot_id \in DOMAIN bots_db
       THEN /\ bots_db' = [bots_db EXCEPT ![bot_id].tasks_completed = @ + 1]
            /\ tasks_db' = [tasks_db EXCEPT ![task_id].status = "completed"]
            /\ last' = [op |-> "execute_task", key |-> None, tok |-> None, rid |-> task_id,
                        auth |-> <<>>, status |-> 0, detail |-> "",
                        accessed |-> {"bots_db", "tasks_db"}, result |-> {}]
       ELSE /\ bots_db' = bots_db
            /\ tasks_db' = [tasks_db EXCEPT ![task_id].status = "cancelled"]
            /\ last' = [op |-> "execute_task", key |-> None, tok |-> None, rid |-> task_id,
                        auth |-> <<>>, status |-> 0, detail |-> "",
                        accessed |-> {"bots_db", "tasks_db"}, result |-> {}]
    /\ UNCHANGED <<users_db, openai_suspends, generating, codes_db, next_id, call>>

\* execute_task completing the task record without the bot's counter update.
ExecuteTask_NoCounter(task_id) ==
    /\ task_id \in background
    /\ background' = background \ {task_id}
    /\ tasks_db' = [tasks_db EXCEPT ![task_id].status = "completed"]
    /\ bots_db' = bots_db
    /\ last' = [op |-> "execute_task", key |-> None, tok |-> None, rid |-> task_id,
                auth |-> <<>>, status |-> 0, detail |-> "",
                accessed |-> {"tasks_db"}, result |-> {}]
    /\ UNCHANGED <<users_db, openai_suspends, generating, codes_db, next_id, call>>

\* The part of execute_task after its sleep: it runs without suspension.  The
\* task record is marked completed first; the counter update
\* bots_db[bot_id]["tasks_completed"] += 1 raises KeyError when the bot is gone.
ExecuteTask(task_id) ==
    /\ task_id \in background
    /\ background' = background \ {task_id}
    /\ tasks_db' = [tasks_db EXCEPT ![task_id].status = "completed"]
    /\ LET bot_id == tasks_db[task_id].bot_id IN
       IF bot_id \in DOMAIN bots_db
       THEN /\ bots_db' = [bots_db EXCEPT ![bot_id].tasks_completed = @ + 1]
            /\ last' = [op |-> "execute_task", key |-> None, tok |-> None, rid |-> task_id,
                        auth |-> <<>>, status |-> 0, detail |-> "",
                        accessed |-> {"bots_db", "tasks_db"}, result |-> {}]
       ELSE /\ bots_db' = bots_db
            /\ last' = [op |-> "execute_task", key |-> None, tok |-> None, rid |-> task_id,
                        auth |-> <<>>, status |-> 0, detail |-> "KeyError",
                        accessed |-> {"bots_db", "tasks_db"}, result |-> {}]
    /\ UNCHANGED <<users_db, openai_suspends, generating, codes_db, next_id, call>>

\* ---------------------------------------------------------------- specification
NoOutcome ==
    [op |-> "", key |-> None, tok |-> None, rid |-> 0, auth |-> <<>>,
     status |-> 0, detail |-> "", accessed |-> {}, result |-> {}]

NoCall ==
    [fn |-> "", key |-> None, res |-> HTTPException(0, ""), tok |-> None,
     user |-> <<>>, out |-> FALSE]

EmptyDb == [k \in {} |-> 0]

Init ==
    /\ users_db \in UserTables
    /\ openai_suspends \in BOOLEAN
    /\ bots_db = EmptyDb
    /\ codes_db = EmptyDb
    /\ tasks_db = EmptyDb
    /\ background = {}
    /\ generating = EmptyBag
    /\ next_id = 1
    /\ last = NoOutcome
    /\ call = NoCall

\* The stores are all the process keeps between requests: once a response has
\* been sent (or the background coroutine has ended) nothing of the step remains.
Respond ==
    /\ last # NoOutcome
    /\ last' = NoOutcome
    /\ UNCHANGED <<users_db, openai_suspends, generating, bots_db, codes_db, tasks_db, background, next_id, call>>

\* One step of the event loop: a request handled from its resolver to its
\* response, or the completion of a scheduled execute_task.
Next ==
    \/ \E op \in Endpoints, key \in ApiKeys : last = NoOutcome /\ Unauthenticated(op, key)
    \/ \E key \in ApiKeys : last = NoOutcome /\ SystemInfo(key)
    \/ \E key \in ApiKeys : last = NoOutcome /\ CreateBot(key)
    \/ \E key \in ApiKeys : last = NoOutcome /\ ListBots(key)
    \/ \E key \in ApiKeys, id \in Ids, tok \in OverrideTokens :
          last = NoOutcome /\ DeleteBot(key, id, tok)
    \/ \E key \in ApiKeys : last = NoOutcome /\ GenerateCode(key)
    \/ \E key \in ApiKeys : last = NoOutcome /\ GenerateCodeSuspend(key)
    \/ \E auth \in BagToSet(generating) : last = NoOutcome /\ GenerateCodeResume(auth)
    \/ \E key \in ApiKeys, id \in Ids : last = NoOutcome /\ GetCode(key, id)
    \/ \E key \in ApiKeys, id \in Ids, tok \in OverrideTokens :
          last = NoOutcome /\ ApproveCode(key, id, tok)
    \/ \E key \in ApiKeys, id \in Ids : last = NoOutcome /\ AssignTask(key, id)
    \/ \E key \in ApiKeys : last = NoOutcome /\ ListTasks(key)
    \/ \E t \in Ids : last = NoOutcome /\ ExecuteTask(t)
    \/ Respond

Spec == Init /\ [][Next]_vars

\* The event loop runs the coroutines it was given (asyncio.create_task): as
\* long as an execute_task is scheduled one of them is resumed, however many
\* requests arrive, and every response is sent.
SpecFair ==
    /\ Init
    /\ [][Next]_vars
    /\ WF_vars(Respond)
    /\ SF_vars(\E t \in Ids : last = NoOutcome /\ ExecuteTask(t))

\* ---------------------------------------------------------------- direct calls
\* The two AuthChecker functions called on their own: get_api_key on a header
\* value, then check_override_token on the context it produced (None when it
\* raised or has not been called).
CallGetApiKey(key) ==
    /\ call' = [call EXCEPT !.fn = "get_api_key", !.key = key,
                            !.res = get_api_key(key, users_db)]
    /\ UNCHANGED <<users_db, openai_suspends, generating, bots_db, codes_db, tasks_db, background, next_id, last>>

CallCheckOverride(tok) ==
    LET user == IF call.res.ok THEN <<call.res.auth>> ELSE <<>> IN
    /\ call' = [call EXCEPT !.fn = "check_override_token", !.tok = tok, !.user = user,
                            !.out = check_override_token(tok, user)]
    /\ UNCHANGED <<users_db, openai_suspends, generating, bots_db, codes_db, tasks_db, background, next_id, last>>

NextAuth ==
    \/ \E key \in ApiKeys : CallGetApiKey(key)
    \/ \E tok \in OverrideTokens : CallCheckOverride(tok)

SpecAuth == Init /\ [][NextAuth]_vars

TypeOK ==
    /\ users_db \in UserTables
    /\ DOMAIN bots_db \subseteq Ids
    /\ DOMAIN codes_db \subseteq Ids
    /\ DOMAIN tasks_db \subseteq Ids
    /\ background \subseteq DOMAIN tasks_db
    /\ openai_suspends \in BOOLEAN
    /\ IsABag(generating)
    /\ BagCardinality(generating) <= MaxIds
    /\ next_id \in 1..(MaxIds + 1)

\* ---------------------------------------------------------------- failure kinds
MissingCredential(l) == l.status = 401 /\ l.detail = "Missing X-API-Key header"

InvalidCredential(l) == l.status = 401 /\ l.detail = "Invalid API key"

NotFound(l) == l.status = 404 /\ l.detail \in {"Bot not found", "Code not found"}

Forbidden(l) == l.status = 403 /\ l.detail = "Not authorized"

OverrideRequired(l) == l.status = 403 /\ l.detail # "Not authorized"

Ok(l) == l.status = 200

Sensitive == {"delete_bot", "approve_code"}

\* The store an operation on a resource id looks the id up in.
StoreOf(op) == IF op \in {"delete_bot", "assign_task"} THEN bots_db ELSE codes_db

\* The step handles a request op of a resolved caller on a resource that
\* exists when the request arrives.
OnExisting(op) ==
    /\ last = NoOutcome
    /\ last'.op = op
    /\ last'.auth # <<>>
    /\ last'.rid \in DOMAIN StoreOf(op)

Untouched == UNCHANGED <<users_db, bots_db, codes_db, tasks_db, background, next_id>>

\* The mutation of the sensitive action op on resource id by caller email is
\* in the stores after the step.
Applied(op, id, email) ==
    IF op = "delete_bot"
    THEN /\ id \notin DOMAIN bots_db'
         /\ UNCHANGED <<users_db, codes_db, tasks_db>>
    ELSE /\ codes_db'[id].approved = TRUE
         /\ codes_db'[id].approved_by = Some(email)
         /\ UNCHANGED <<users_db, bots_db, tasks_db>>

\* ---------------------------------------------------------------- claims
\* C1: delete_bot and approve_code on an existing resource, called by a caller
\* who is neither its owner nor admin, end in Forbidden whatever override token
\* is sent (the correct secret included), and leave every store as it was.
C1_NonOwnerForbidden ==
    [][\A op \in Sensitive :
         (/\ OnExisting(op)
          /\ StoreOf(op)[last'.rid].owner # last'.auth[1].email
          /\ ~last'.auth[1].is_admin)
         => (Forbidden(last') /\ Untouched)]_vars

C1_Witness ==
    /\ last.op = "delete_bot"
    /\ last.tok = Some(OVERRIDE_TOKEN)
    /\ Forbidden(last)
    /\ ~last.auth[1].is_admin
    /\ last.rid \in DOMAIN bots_db
    /\ bots_db[last.rid].owner # last.auth[1].email

\* C2: delete_bot and approve_code on an existing resource, called by its
\* non-admin owner: without an override token the result is OverrideRequired and
\* nothing changes; with the token equal to OVERRIDE_TOKEN the result is Ok and
\* the bot is removed, or the code record approved by the caller.
C2_OwnerNeedsOverride ==
    [][\A op \in Sensitive :
         (/\ OnExisting(op)
          /\ StoreOf(op)[last'.rid].owner = last'.auth[1].email
          /\ ~last'.auth[1].is_admin)
         => /\ last'.tok = None => (OverrideRequired(last') /\ Untouched)
            /\ last'.tok = Some(OVERRIDE_TOKEN)
                 => (Ok(last') /\ Applied(op, last'.rid, last'.auth[1].email))]_vars

C2_Witness ==
    /\ last.op = "approve_code"
    /\ last.tok = Some(OVERRIDE_TOKEN)
    /\ Ok(last)
    /\ ~last.auth[1].is_admin
    /\ codes_db[last.rid].owner = last.auth[1].email
    /\ codes_db[last.rid].approved

\* C3: an admin caller is let through delete_bot and approve_code on every
\* existing resource, whoever owns it and whatever override token is sent.
C3_AdminPermitted ==
    [][\A op \in Sensitive :
         (OnExisting(op) /\ last'.auth[1].is_admin)
         => (Ok(last') /\ Applied(op, last'.rid, last'.auth[1].email))]_vars

C3_Witness ==
    /\ last.op = "approve_code"
    /\ last.tok = Some(OVERRIDE_TOKEN \o "x")
    /\ Ok(last)
    /\ last.auth[1].is_admin
    /\ codes_db[last.rid].owner # last.auth[1].email
    /\ codes_db[last.rid].approved_by = Some(last.auth[1].email)

\* C4: delete_bot, get_code, approve_code and assign_task on an id that is not
\* in the store they look it up in end in NotFound for every resolved caller
\* and every override token, and change nothing.
C4_MissingIsNotFound ==
    [][\A op \in {"delete_bot", "get_code", "approve_code", "assign_task"} :
         (/\ last = NoOutcome
          /\ last'.op = op
          /\ last'.auth # <<>>
          /\ last'.rid \notin DOMAIN StoreOf(op))
         => (NotFound(last') /\ Untouched)]_vars

C4_Witness ==
    /\ last.op = "assign_task"
    /\ NotFound(last)
    /\ ~last.auth[1].is_admin
    /\ last.rid \in DOMAIN codes_db

\* C5: a request whose X-API-Key is absent or empty ends in MissingCredential;
\* its handler touches no store and every store is as it was.
C5_MissingCredential ==
    [][(last'.op \in Endpoints /\ ~Truthy(last'.key))
         => (MissingCredential(last') /\ last'.accessed = {} /\ Untouched)]_vars

C5_Witness ==
    /\ last.op = "delete_bot"
    /\ last.key = Some("")
    /\ MissingCredential(last)
    /\ bots_db # EmptyDb

\* C6: a request whose key is non-empty and equals neither CREATOR_API_KEY nor
\* the api_key of any user of users_db ends in InvalidCredential.
C6_InvalidCredential ==
    (/\ last.op \in Endpoints
     /\ Truthy(last.key)
     /\ last.key[1] # CREATOR_API_KEY
     /\ \A i \in 1..Len(users_db) : users_db[i].api_key # last.key[1])
    => InvalidCredential(last)

C6_Witness ==
    /\ last.op = "get_code"
    /\ last.key = Some("key-alice")
    /\ Len(users_db) = 3
    /\ InvalidCredential(last)

\* C7: a request carrying CREATOR_API_KEY is resolved to the context
\* (CREATOR_EMAIL, admin, CREATOR_API_KEY) under every identity table.
C7_CreatorKeyIsAdmin ==
    (last.op \in Endpoints /\ last.key = Some(CREATOR_API_KEY))
    => last.auth = <<[email |-> CREATOR_EMAIL, is_admin |-> TRUE,
                      api_key |-> CREATOR_API_KEY]>>

C7_Witness ==
    /\ last.op = "list_bots"
    /\ last.key = Some(CREATOR_API_KEY)
    /\ Len(users_db) = 3
    /\ last.auth # <<>>
    /\ last.auth[1].is_admin
    /\ last.result # {}

\* C8: a resolved context is admin only if the user of users_db with its email
\* has is_admin set; a context resolved by the lookup (a key other than
\* CREATOR_API_KEY) names a user that stores that key, with that user's flag.
C8_AdminOnlyFromTable ==
    last.auth # <<>> =>
        LET a == last.auth[1] IN
        /\ a.is_admin => \E i \in 1..Len(users_db) :
                            users_db[i].email = a.email /\ users_db[i].is_admin
        /\ a.api_key # CREATOR_API_KEY =>
              \E i \in 1..Len(users_db) :
                  /\ users_db[i].email = a.email
                  /\ users_db[i].api_key = a.api_key
                  /\ users_db[i].is_admin = a.is_admin

C8_Witness ==
    /\ last.auth # <<>>
    /\ last.auth[1].email = "alice@example.com"
    /\ ~last.auth[1].is_admin
    /\ \E i \in 1..Len(users_db) :
          users_db[i].api_key = last.auth[1].api_key /\ users_db[i].is_admin

\* C9: check_override_token on an admin context returns True for every
\* override token: the secret, another value, the empty string, None.
C9_AdminBypassesOverride ==
    (call.fn = "check_override_token" /\ call.user # <<>> /\ call.user[1].is_admin)
    => call.out = TRUE

C9_Witness ==
    /\ call.fn = "check_override_token"
    /\ call.user # <<>>
    /\ call.user[1].is_admin
    /\ call.tok = Some(OVERRIDE_TOKEN \o "x")
    /\ call.out = TRUE

\* C10: check_override_token on a non-admin context returns True exactly when
\* the token is present and equal to OVERRIDE_TOKEN.
C10_NonAdminNeedsSecret ==
    (call.fn = "check_override_token" /\ call.user # <<>> /\ ~call.user[1].is_admin)
    => (call.out = TRUE <=> call.tok = Some(OVERRIDE_TOKEN))

C10_Witness ==
    /\ call.fn = "check_override_token"
    /\ call.user # <<>>
    /\ ~call.user[1].is_admin
    /\ call.tok = Some(OVERRIDE_TOKEN \o "x")
    /\ call.out = FALSE

\* C11: the override check has no memory: whatever requests came before, a
\* non-admin owner who sends OVERRIDE_TOKEN with delete_bot or approve_code is
\* let through, also when the same caller has used the secret before.
C11_OverrideHasNoMemory ==
    [][\A op \in Sensitive :
         (/\ OnExisting(op)
          /\ StoreOf(op)[last'.rid].owner = last'.auth[1].email
          /\ ~last'.auth[1].is_admin
          /\ last'.tok = Some(OVERRIDE_TOKEN))
         => Ok(last')]_vars

C11_Witness ==
    /\ last.op = "approve_code"
    /\ last.tok = Some(OVERRIDE_TOKEN)
    /\ Ok(last)
    /\ ~last.auth[1].is_admin
    /\ \E c \in DOMAIN codes_db :
          c # last.rid /\ codes_db[c].approved_by = Some(last.auth[1].email)

\* The emails of the identities of users_db.
UserEmails == { users_db[i].email : i \in 1..Len(users_db) }

HasOwner(rec) == "owner" \in DOMAIN rec /\ rec.owner \in UserEmails

\* C12 as stated: after every step each record of bots_db, codes_db and
\* tasks_db has an owner attribute that is an identity's email, and a record
\* that was there before the step has the owner it had.
C12_EveryRecordHasOwner ==
    [][/\ \A b \in DOMAIN bots_db' :
            /\ HasOwner(bots_db'[b])
            /\ b \in DOMAIN bots_db => bots_db'[b].owner = bots_db[b].owner
       /\ \A c \in DOMAIN codes_db' :
            /\ HasOwner(codes_db'[c])
            /\ c \in DOMAIN codes_db => codes_db'[c].owner = codes_db[c].owner
       /\ \A t \in DOMAIN tasks_db' :
            /\ HasOwner(tasks_db'[t])
            /\ t \in DOMAIN tasks_db => tasks_db'[t].owner = tasks_db[t].owner]_vars

\* C12 as amended: bot and code records carry owner, task records carry
\* assigned_by and no owner; each is an identity's email, is the email of the
\* caller whose request created the record, and is never changed afterwards.
C12_OwnerFixedAtCreation ==
    [][/\ \A b \in DOMAIN bots_db' :
            /\ bots_db'[b].owner \in UserEmails
            /\ b \in DOMAIN bots_db => bots_db'[b].owner = bots_db[b].owner
            /\ b \notin DOMAIN bots_db => bots_db'[b].owner = last'.auth[1].email
       /\ \A c \in DOMAIN codes_db' :
            /\ codes_db'[c].owner \in UserEmails
            /\ c \in DOMAIN codes_db => codes_db'[c].owner = codes_db[c].owner
            /\ c \notin DOMAIN codes_db => codes_db'[c].owner = last'.auth[1].email
       /\ \A t \in DOMAIN tasks_db' :
            /\ "owner" \notin DOMAIN tasks_db'[t]
            /\ tasks_db'[t].assigned_by \in UserEmails
            /\ t \in DOMAIN tasks_db => tasks_db'[t].assigned_by = tasks_db[t].assigned_by
            /\ t \notin DOMAIN tasks_db => tasks_db'[t].assigned_by = last'.auth[1].email]_vars

C12_Witness ==
    /\ last.op = "execute_task"
    /\ tasks_db[last.rid].status = "completed"
    /\ tasks_db[last.rid].bot_id \in DOMAIN bots_db
    /\ tasks_db[last.rid].assigned_by # bots_db[tasks_db[last.rid].bot_id].owner
    /\ bots_db[tasks_db[last.rid].bot_id].owner # CREATOR_EMAIL

\* C13: create_bot and generate_code of a resolved caller end in Ok whoever
\* the caller is; the store gains one record under a fresh id, owned by the
\* caller, and nothing else changes.
C13_CreationAlwaysPermitted ==
    [][(/\ last = NoOutcome
        /\ last'.op \in {"create_bot", "generate_code"}
        /\ last'.auth # <<>>)
       => /\ Ok(last')
          /\ LET db == IF last'.op = "create_bot" THEN bots_db ELSE codes_db
                 dbn == IF last'.op = "create_bot" THEN bots_db' ELSE codes_db'
             IN /\ last'.rid \notin DOMAIN db
                /\ DOMAIN dbn = DOMAIN db \cup {last'.rid}
                /\ dbn[last'.rid].owner = last'.auth[1].email
                /\ \A k \in DOMAIN db : dbn[k] = db[k]
          /\ last'.op = "create_bot" => UNCHANGED <<users_db, codes_db, tasks_db>>
          /\ last'.op = "generate_code" => UNCHANGED <<users_db, bots_db, tasks_db>>]_vars

C13_Witness ==
    /\ last.op = "create_bot"
    /\ Ok(last)
    /\ ~last.auth[1].is_admin
    /\ bots_db[last.rid].owner = last.auth[1].email
    /\ \E c \in DOMAIN codes_db : codes_db[c].owner # last.auth[1].email

\* The failure kind a request must end in, from the request (as last' records
\* it) and the state it arrives in: the first test of the admission sequence
\* that it fails, "Ok" when it fails none.
OnResource == {"delete_bot", "get_code", "approve_code", "assign_task"}

KindDue ==
    IF ~Truthy(last'.key)
    THEN "MissingCredential"
    ELSE IF /\ last'.key[1] # CREATOR_API_KEY
            /\ \A i \in 1..Len(users_db) : users_db[i].api_key # last'.key[1]
    THEN "InvalidCredential"
    ELSE IF last'.op \notin OnResource
    THEN "Ok"
    ELSE IF last'.rid \notin DOMAIN StoreOf(last'.op)
    THEN "NotFound"
    ELSE IF /\ StoreOf(last'.op)[last'.rid].owner # last'.auth[1].email
            /\ ~last'.auth[1].is_admin
    THEN "Forbidden"
    ELSE IF /\ last'.op \in Sensitive
            /\ ~last'.auth[1].is_admin
            /\ last'.tok # Some(OVERRIDE_TOKEN)
    THEN "OverrideRequired"
    ELSE "Ok"

StatusOf(kind) ==
    CASE kind \in {"MissingCredential", "InvalidCredential"} -> 401
      [] kind \in {"Forbidden", "OverrideRequired"} -> 403
      [] kind = "NotFound" -> 404
      [] OTHER -> 200

\* C14: every request is answered with the status code of the failure kind it
\* is due: 401 for MissingCredential and InvalidCredential, 403 for Forbidden
\* and OverrideRequired, 404 for NotFound; and the response to OverrideRequired
\* differs from that to InvalidCredential (status) and to Forbidden (detail).
C14_StatusCodeOfKind ==
    [][(last = NoOutcome /\ last'.op \in Endpoints)
       => /\ last'.status = StatusOf(KindDue)
          /\ KindDue = "OverrideRequired"
                => last'.detail \notin {"Invalid API key", "Missing X-API-Key header",
                                        "Not authorized", "Bot not found", "Code not found", ""}
          /\ KindDue = "Forbidden" => last'.detail = "Not authorized"
          /\ KindDue = "InvalidCredential" => last'.detail = "Invalid API key"]_vars

C14_Witness ==
    /\ last.op = "delete_bot"
    /\ last.status = 403
    /\ last.detail = "Override token required for non-admin users"
    /\ last.tok = Some(OVERRIDE_TOKEN \o "x")
    /\ bots_db[last.rid].owner = last.auth[1].email

\* C15: get_code on an existing code record and assign_task on an existing bot
\* end in Ok exactly when the caller's email is the record's owner or the
\* caller is admin, and in Forbidden otherwise; the request carries no override
\* token.
C15_NonSensitiveOwnerOrAdmin ==
    [][\A op \in {"get_code", "assign_task"} :
         OnExisting(op)
         => LET permitted == \/ StoreOf(op)[last'.rid].owner = last'.auth[1].email
                             \/ last'.auth[1].is_admin
            IN /\ Ok(last') <=> permitted
               /\ ~permitted => (Forbidden(last') /\ Untouched)
               /\ last'.tok = None]_vars

C15_Witness ==
    /\ last.op = "get_code"
    /\ Ok(last)
    /\ last.auth[1].is_admin
    /\ last.result = {last.rid}
    /\ codes_db[last.rid].owner # last.auth[1].email
    /\ ~codes_db[last.rid].approved

\* C16: a request that is rejected (MissingCredential, InvalidCredential,
\* NotFound, Forbidden, OverrideRequired) leaves users_db, bots_db, codes_db and
\* tasks_db as they were and schedules nothing; so does system_info, which only
\* runs the resolver.
C16_RejectionChangesNothing ==
    [][(/\ last'.op \in Endpoints
        /\ \/ MissingCredential(last')
           \/ InvalidCredential(last')
           \/ NotFound(last')
           \/ Forbidden(last')
           \/ OverrideRequired(last')
           \/ last'.op = "system_info")
       => Untouched]_vars

C16_Witness ==
    /\ last.op = "approve_code"
    /\ OverrideRequired(last)
    /\ last.tok = Some(OVERRIDE_TOKEN \o "x")
    /\ ~codes_db[last.rid].approved
    /\ codes_db[last.rid].approved_by = None
    /\ codes_db[last.rid].owner = last.auth[1].email
    /\ bots_db # EmptyDb

\* The step is the request op on resource id of a caller who is admin, or is
\* the owner of rec and sent OVERRIDE_TOKEN.
Entitled(op, id, rec) ==
    /\ last'.op = op
    /\ last'.rid = id
    /\ Ok(last')
    /\ last'.auth # <<>>
    /\ \/ last'.auth[1].is_admin
       \/ /\ rec.owner = last'.auth[1].email
          /\ last'.tok = Some(OVERRIDE_TOKEN)

\* C17: a bot leaves bots_db only in a delete_bot step on it, and the approved
\* flag of a code record turns true only in an approve_code step on it, of a
\* caller who is admin or is the record's owner and sent OVERRIDE_TOKEN;
\* approved_by is then that caller's email.
C17_OnlyEntitledMutate ==
    [][/\ \A b \in DOMAIN bots_db :
            b \notin DOMAIN bots_db' => Entitled("delete_bot", b, bots_db[b])
       /\ \A c \in DOMAIN codes_db :
            (~codes_db[c].approved /\ codes_db'[c].approved)
            => /\ Entitled("approve_code", c, codes_db[c])
               /\ codes_db'[c].approved_by = Some(last'.auth[1].email)
       /\ \A c \in DOMAIN codes_db : c \in DOMAIN codes_db'
       /\ \A c \in DOMAIN codes_db' \ DOMAIN codes_db : ~codes_db'[c].approved]_vars

C17_Witness ==
    /\ last.op = "delete_bot"
    /\ Ok(last)
    /\ ~last.auth[1].is_admin
    /\ last.tok = Some(OVERRIDE_TOKEN)
    /\ last.rid \notin DOMAIN bots_db
    /\ \E c \in DOMAIN codes_db :
          codes_db[c].approved /\ codes_db[c].approved_by # Some(last.auth[1].email)

\* C18: every task record assign_task has created is eventually completed,
\* whatever requests are interleaved with its execute_task, a delete_bot of its
\* bot included.
C18_TaskEventuallyCompleted ==
    \A t \in Ids :
        (t \in DOMAIN tasks_db)
        ~> (t \in DOMAIN tasks_db /\ tasks_db[t].status = "completed")

C18_Witness ==
    /\ last.op = "execute_task"
    /\ last.detail = "KeyError"
    /\ tasks_db[last.rid].status = "completed"
    /\ tasks_db[last.rid].bot_id \notin DOMAIN bots_db
    /\ last.rid \notin background

\* C19: a task record enters tasks_db with status pending; its status is
\* pending or completed; in a step it stays as it is or goes from pending to
\* completed; and no task record leaves tasks_db.
C19_TaskStatusMachine ==
    [][/\ \A t \in DOMAIN tasks_db :
            /\ t \in DOMAIN tasks_db'
            /\ \/ tasks_db'[t].status = tasks_db[t].status
               \/ tasks_db[t].status = "pending" /\ tasks_db'[t].status = "completed"
       /\ \A t \in DOMAIN tasks_db' :
            /\ tasks_db'[t].status \in {"pending", "completed"}
            /\ t \notin DOMAIN tasks_db => tasks_db'[t].status = "pending"]_vars

C19_Witness ==
    /\ last.op = "execute_task"
    /\ last.detail = ""
    /\ tasks_db[last.rid].status = "completed"
    /\ tasks_db[last.rid].bot_id \in DOMAIN bots_db
    /\ bots_db[tasks_db[last.rid].bot_id].tasks_completed = 1

\* C20: a completed execute_task has run to its end without an error: the bot
\* whose tasks_completed it increments is in bots_db.
C20_CompletionWithoutError ==
    last.op = "execute_task"
    => /\ last.detail # "KeyError"
       /\ tasks_db[last.rid].bot_id \in DOMAIN bots_db

\* The number of task records of bot b whose status is completed.
CompletedTasksOf(b) ==
    Cardinality({ t \in DOMAIN tasks_db :
                    tasks_db[t].bot_id = b /\ tasks_db[t].status = "completed" })

\* C21: in every reachable state the tasks_completed counter of every bot in
\* bots_db equals the number of completed task records with that bot's id; a
\* bot enters bots_db with the counter at 0, and in no step does the counter
\* of a bot that stays in bots_db decrease.
C21_CounterCountsCompleted ==
    /\ [](\A b \in DOMAIN bots_db : bots_db[b].tasks_completed = CompletedTasksOf(b))
    /\ [][\A b \in DOMAIN bots_db' :
            IF b \in DOMAIN bots_db
            THEN bots_db'[b].tasks_completed >= bots_db[b].tasks_completed
            ELSE bots_db'[b].tasks_completed = 0]_vars

\* A bot whose one task has completed, seen with its counter at 1 by list_bots
\* after the task's execute_task has run.
C21_Witness ==
    /\ last.op = "list_bots"
    /\ \E b \in last.result :
          /\ bots_db[b].tasks_completed = 1
          /\ CompletedTasksOf(b) = 1
          /\ background = {}

\* C22: a successful list_tasks returns exactly the task records whose bot is
\* in bots_db and is owned by the caller, or, to an admin caller, every task
\* record whose bot is in bots_db; so a caller who is not an admin receives no
\* task of a bot another identity owns, and a task whose bot was deleted is
\* returned to no caller, an admin included.
C22_ListTasksByLiveBotOwner ==
    (last.op = "list_tasks" /\ Ok(last)) =>
        LET caller == last.auth[1] IN
        /\ \A t \in DOMAIN tasks_db :
              t \in last.result <=>
                 /\ tasks_db[t].bot_id \in DOMAIN bots_db
                 /\ \/ caller.is_admin
                    \/ bots_db[tasks_db[t].bot_id].owner = caller.email
        /\ last.result \subseteq DOMAIN tasks_db
        /\ \A t \in last.result : tasks_db[t].bot_id \in DOMAIN bots_db
        /\ ~caller.is_admin =>
              \A t \in last.result :
                 /\ tasks_db[t].bot_id \in DOMAIN bots_db
                 /\ bots_db[tasks_db[t].bot_id].owner = caller.email

\* An admin lists the tasks while the only task record is one whose bot has
\* been deleted after its task completed: nothing is returned.
C22_Witness ==
    /\ last.op = "list_tasks"
    /\ Ok(last)
    /\ last.auth[1].is_admin
    /\ last.result = {}
    /\ \E t \in DOMAIN tasks_db :
          /\ tasks_db[t].bot_id \notin DOMAIN bots_db
          /\ tasks_db[t].status = "completed"
          /\ tasks_db[t].assigned_by = last.auth[1].email

====
